---- MODULE Spec2Model ----
(***************************************************************************)
(* Model of colossalai/auto_parallel/tensor_shard/node_handler/            *)
(* node_handler.py: NodeHandler.register_strategy and                      *)
(* NodeHandler.update_resharding_cost, driven over a small computation     *)
(* graph.  One handler per node; each handler owns the StrategiesVector    *)
(* it was constructed with.                                                *)
(***************************************************************************)
EXTENDS Integers, Sequences, FiniteSets, TLC

VARIABLES
    strategies_vector,        \* handler.strategies_vector, per node
    attached,                 \* hasattr(node, 'strategies_vector'), per node
    pc,                       \* position of register_strategy, per node
    compute_resharding_cost,  \* the argument of the running call, per node
    num_generators,           \* len(get_strategy_generator()) of the call
    gen_index,                \* next generator of the for loop (1-based)
    generated,                \* what generate() returned so far in the call
    raised,                   \* the exception the call ended with
    calls,                    \* number of register_strategy calls so far
    snapshot,                 \* the vector as it was at the first return
    total_rule,               \* the oracle's rule combining forward/backward
    module_handler            \* the ModuleHandler constructed for each node

vars == <<strategies_vector, attached, pc, compute_resharding_cost,
          num_generators, gen_index, generated, raised, calls, snapshot,
          total_rule, module_handler>>

----------------------------------------------------------------------------
(* Bounds of the model *)

\* most generators get_strategy_generator() returns
MaxGens == 2
\* most strategies one generate() returns
MaxPerGen == 2
\* most repeated register_strategy calls in one behaviour (SpecRecall only)
MaxRecalls == 1

----------------------------------------------------------------------------
(* The computation graph and the tensors *)

Nodes == {"A", "B", "C"}

\* self.predecessor_node = list(node._input_nodes.keys())
predecessor_node(n) ==
    CASE n = "A" -> <<>>
      [] n = "B" -> <<>>
      [] n = "C" -> <<"A", "B">>

\* the logical device mesh: two axes (0 and 1) of two devices each
mesh_shape == [a \in {0, 1} |-> 2]

\* the tensor a node produces (op_data.data of the operand of that name)
tensor_shape(name) ==
    CASE name = "A" -> <<3, 8>>
      [] name = "B" -> <<8, 8>>
      [] name = "C" -> <<8, 8>>
      [] name = "size" -> <<3, 3>>

\* a sharding spec of a rank-2 tensor: the mesh axes of dim 0 and of dim 1
Replicated == <<{}, {}>>
ShardDim0  == <<{0}, {}>>
ShardDim1  == <<{}, {1}>>
ReuseAxis  == <<{0}, {0}>>

\* the layouts the generators draw from, in turn
LayoutCycle == <<ShardDim1, ShardDim0, Replicated, ShardDim1, Replicated,
                 ShardDim0, ReuseAxis>>

LayoutAt(j) == LayoutCycle[((j - 1) % Len(LayoutCycle)) + 1]

\* the operands of a node's strategies: one per predecessor, named
\* str(predecessor), and the output, named str(node)
\* the operands of a node that are no node of the graph: B takes a size
\* argument
argument_names(n) == IF n = "B" THEN <<"size">> ELSE <<>>

operand_names(n) == argument_names(n) \o predecessor_node(n) \o <<n>>

\* type(op_data.data) of the operand of that name
data_type(name) == IF name \in Nodes THEN "torch.Tensor" ELSE "torch.Size"

SeqToSet(s) == {s[i] : i \in 1..Len(s)}

IndexOf(s, x) == CHOOSE i \in 1..Len(s) : s[i] = x

\* dictionary keys: a Node and an OperationData are different objects
NodeKey(name) == [kind |-> "Node", name |-> name]
OperationData(name) == [kind |-> "OperationData", name |-> name]

----------------------------------------------------------------------------
(* Collaborators the handler calls *)

Max(a, b) == IF a >= b THEN a ELSE b

CombinationRules == {"sum", "max"}

\* an oracle that answers with a negative total
FaultyRule == "negative"

\* ShapeConsistencyManager.shape_consistency(prev, cur): the cost dictionary
\* of turning layout prev into layout cur.  A dimension whose source is
\* sharded differently must be gathered in the forward pass, one whose
\* target is sharded differently in the backward pass.
shape_consistency(prev, cur) ==
    LET fwd == Cardinality({d \in 1..Len(prev) : prev[d] # cur[d] /\ prev[d] # {}})
        bwd == Cardinality({d \in 1..Len(prev) : prev[d] # cur[d] /\ cur[d] # {}})
    IN  [forward  |-> fwd,
         backward |-> bwd,
         total    |-> CASE total_rule = "sum" -> fwd + bwd
                        [] total_rule = "max" -> Max(fwd, bwd)
                        [] OTHER -> 0 - (fwd + bwd) - 1]

RECURSIVE devices(_)
\* number of devices a set of mesh axes spans
devices(axes) ==
    IF axes = {} THEN 1
    ELSE LET a == CHOOSE x \in axes : TRUE
         IN  mesh_shape[a] * devices(axes \ {a})

\* check_sharding_spec_validity(sharding_spec, tensor): the layout names
\* only dimensions of the tensor, every sharded dimension is divisible by
\* the devices it is spread over, and no mesh axis is used twice
LayoutValid(layout, shape) ==
    /\ Len(layout) = Len(shape)
    /\ \A d \in 1..Len(layout) : shape[d] % devices(layout[d]) = 0
    /\ \A d, e \in 1..Len(layout) : d # e => layout[d] \cap layout[e] = {}

\* a ShardingStrategy as a generator returns it: a layout per operand, no
\* resharding costs yet (resharding_costs is None)
ShardingStrategy(n, g, i, j) ==
    [name             |-> <<g, i, 0>>,
     sharding_specs   |-> [nm \in SeqToSet(operand_names(n)) |->
                              LayoutAt(j + Len(operand_names(n))
                                         - IndexOf(operand_names(n), nm))],
     has_costs        |-> FALSE,
     resharding_costs |-> [key \in {} |-> <<>>]]

\* what generator g of node n may return from generate(): any number of
\* strategies up to MaxPerGen, drawn from consecutive places of the cycle
GenOutputs(n, g) ==
    {[i \in 1..k |-> ShardingStrategy(n, g, i, (g - 1) * (k + 1) + i)] :
        k \in 0..MaxPerGen}

----------------------------------------------------------------------------
(* NodeHandler.post_process *)

Transposed(layout) == <<layout[2], layout[1]>>

\* The base class returns the strategy itself.  The handler of node C
\* overrides the hook the way the return type allows: its operand B is a
\* transposed view, so it returns the strategy and a twin with that
\* operand's layout permuted.
post_process(n, strategy) ==
    IF n = "C"
    THEN [is_list |-> TRUE,
          items   |-> << [strategy EXCEPT !.name[3] = 1],
                         [strategy EXCEPT
                             !.name[3] = 2,
                             !.sharding_specs["B"] = Transposed(@)] >>]
    ELSE [is_list |-> FALSE, items |-> <<strategy>>]

RECURSIVE flatten(_, _)
\* the loop keeping only the first strategy of a list result
flatten_first_only(results, post_processed_strategies) ==
    IF results = <<>> THEN post_processed_strategies
    ELSE flatten(Tail(results),
                 Append(post_processed_strategies, Head(results).items[1]))

\* the loop over post_processed_strategies_map: a list or tuple is
\* extended into the result, a single strategy is appended to it
flatten(results, post_processed_strategies) ==
    IF results = <<>> THEN post_processed_strategies
    ELSE LET strategy == Head(results)
         IN  IF strategy.is_list
             THEN flatten(Tail(results), post_processed_strategies \o strategy.items)
             ELSE flatten(Tail(results),
                          Append(post_processed_strategies, strategy.items[1]))

\* map(self.post_process, strategies), flattened
post_processed(n, strategies) ==
    flatten([i \in 1..Len(strategies) |-> post_process(n, strategies[i])], <<>>)

----------------------------------------------------------------------------
(* NodeHandler.update_resharding_cost *)

NoError == [kind |-> "None", node |-> "None", operand |-> "None",
            layout |-> <<>>, shape |-> <<>>]

\* the failed assert of update_resharding_cost; its message names the
\* predecessor that has no strategy vector
OrderingError == "AssertionError"

\* what check_sharding_spec_validity raises
InvalidLayoutError == "InvalidLayoutError"

\* prev_strategy.get_sharding_spec_by_name(node_name) for every strategy of
\* the predecessor's vector, in the vector's order
prev_sharding_specs(node) ==
    [i \in 1..Len(strategies_vector[node]) |->
        strategies_vector[node][i].sharding_specs[node]]

\* strategy.get_op_data_by_name(node_name)
get_op_data_by_name(strategy, node_name) == OperationData(node_name)

\* a TrainCycleItem whose total is recomputed from forward and backward
TrainCycleItem_recomputed(resharding_cost) ==
    [fwd   |-> resharding_cost.forward,
     bwd   |-> resharding_cost.backward,
     total |-> resharding_cost.forward + resharding_cost.backward]

\* the TrainCycleItem built from one oracle result
TrainCycleItem(resharding_cost) ==
    [fwd   |-> resharding_cost.forward,
     bwd   |-> resharding_cost.backward,
     total |-> resharding_cost.total]

\* one pass of the inner loop: the cost of switching from a predecessor's
\* layout to the layout of the current strategy
resharding_cost_item(prev_sharding_spec, current_sharding_spec) ==
    TrainCycleItem(shape_consistency(prev_sharding_spec, current_sharding_spec))

RECURSIVE inner_loop(_, _, _)
\* the inner loop with a shortcut that skips a predecessor layout equal to
\* the current one
inner_loop_skip_equal(prev_specs, current_sharding_spec, costs) ==
    IF prev_specs = <<>> THEN costs
    ELSE inner_loop(Tail(prev_specs), current_sharding_spec,
                    IF Head(prev_specs) = current_sharding_spec
                    THEN costs
                    ELSE Append(costs, resharding_cost_item(Head(prev_specs),
                                                            current_sharding_spec)))

\* for prev_sharding_spec in prev_sharding_specs: ... append(resharding_cost)
inner_loop(prev_specs, current_sharding_spec, costs) ==
    IF prev_specs = <<>> THEN costs
    ELSE inner_loop(Tail(prev_specs), current_sharding_spec,
                    Append(costs, resharding_cost_item(Head(prev_specs),
                                                       current_sharding_spec)))

\* resharding_costs = {}
EmptyDict == [key \in {} |-> <<>>]

\* a predecessor is taken to carry a vector whether or not one is attached
has_strategies_vector_unchecked(node) == TRUE

\* hasattr(node, 'strategies_vector')
has_strategies_vector(node) == attached[node]

RECURSIVE pred_loop(_, _, _, _)
\* for node in self.predecessor_node, from position k on
pred_loop(n, strategy, k, resharding_costs) ==
    IF k > Len(predecessor_node(n))
    THEN [ok |-> TRUE, costs |-> resharding_costs, error |-> NoError]
    ELSE LET node == predecessor_node(n)[k]
         IN  IF ~has_strategies_vector(node)
             THEN [ok    |-> FALSE,
                   costs |-> resharding_costs,
                   error |-> [NoError EXCEPT !.kind = OrderingError,
                                             !.node = node]]
             ELSE LET op_data == get_op_data_by_name(strategy, node)
                      current_sharding_spec == strategy.sharding_specs[op_data.name]
                      created ==
                          IF op_data \notin DOMAIN resharding_costs
                          THEN (NodeKey(node) :> <<>>) @@ resharding_costs
                          ELSE resharding_costs
                      filled ==
                          [created EXCEPT ![NodeKey(node)] =
                              inner_loop(prev_sharding_specs(node),
                                         current_sharding_spec, @)]
                  IN  pred_loop(n, strategy, k + 1, filled)

\* the costs are filled into the dictionary the strategy already carries
update_resharding_cost_merging(n, strategy) ==
    LET r == pred_loop(n, strategy, 1, strategy.resharding_costs)
    IN  [ok       |-> r.ok,
         error    |-> r.error,
         strategy |-> IF r.ok
                      THEN [strategy EXCEPT !.has_costs = TRUE,
                                            !.resharding_costs = r.costs]
                      ELSE strategy]

\* update_resharding_cost(strategy): the strategy with its costs replaced,
\* or the exception
update_resharding_cost(n, strategy) ==
    LET r == pred_loop(n, strategy, 1, EmptyDict)
    IN  [ok       |-> r.ok,
         error    |-> r.error,
         strategy |-> IF r.ok
                      THEN [strategy EXCEPT !.has_costs = TRUE,
                                            !.resharding_costs = r.costs]
                      ELSE strategy]

----------------------------------------------------------------------------
(* NodeHandler.register_strategy *)

\* the operands whose op_data.data is a torch.Tensor
TensorOperands_any_data ==
    UNION {SeqToSet(operand_names(n)) : n \in Nodes}

TensorOperands ==
    {nm \in UNION {SeqToSet(operand_names(n)) : n \in Nodes} :
        data_type(nm) = "torch.Tensor"}

\* the map over the candidates is never consumed: no cost is computed
with_resharding_costs_lazy(n, compute, post_processed_strategies) ==
    [ok |-> TRUE, error |-> NoError, strategies |-> post_processed_strategies]

\* the costs are computed whatever the flag says
with_resharding_costs_always(n, compute, post_processed_strategies) ==
    LET updated == [i \in 1..Len(post_processed_strategies) |->
                       update_resharding_cost(n, post_processed_strategies[i])]
        failed == {i \in 1..Len(updated) : ~updated[i].ok}
    IN  IF failed = {}
        THEN [ok |-> TRUE, error |-> NoError,
              strategies |-> [i \in 1..Len(updated) |-> updated[i].strategy]]
        ELSE [ok |-> FALSE,
              error |-> updated[CHOOSE i \in failed :
                                   \A j \in failed : i <= j].error,
              strategies |-> <<>>]

\* if compute_resharding_cost: map update_resharding_cost over the
\* candidates; the first exception ends the call
with_resharding_costs(n, compute, post_processed_strategies) ==
    IF compute
    THEN LET updated == [i \in 1..Len(post_processed_strategies) |->
                            update_resharding_cost(n, post_processed_strategies[i])]
             failed == {i \in 1..Len(updated) : ~updated[i].ok}
         IN  IF failed = {}
             THEN [ok |-> TRUE, error |-> NoError,
                   strategies |-> [i \in 1..Len(updated) |-> updated[i].strategy]]
             ELSE [ok |-> FALSE,
                   error |-> updated[CHOOSE i \in failed :
                                        \A j \in failed : i <= j].error,
                   strategies |-> <<>>]
    ELSE [ok |-> TRUE, error |-> NoError, strategies |-> post_processed_strategies]

\* the new candidates are put in front of the vector
extend_in_front(vector, post_processed_strategies) ==
    post_processed_strategies \o vector

\* self.strategies_vector.extend(post_processed_strategies)
extend(vector, post_processed_strategies) == vector \o post_processed_strategies

\* every handler was handed one and the same vector
handler_vector_shared(n) == "A"

\* self.strategies_vector = strategies_vector: the vector the handler of n
\* was constructed with, which is the one of its own node
handler_vector(n) == n

\* the (strategy, operand) pairs the validation loop finds invalid, as
\* positions in the vector and in the strategy's operands
invalid_positions(n) ==
    {<<i, k>> \in (1..Len(strategies_vector[handler_vector(n)]))
                      \X (1..Len(operand_names(n))) :
        LET nm == operand_names(n)[k]
        IN  /\ nm \in TensorOperands
            /\ ~LayoutValid(strategies_vector[handler_vector(n)][i].sharding_specs[nm],
                            tensor_shape(nm))}

\* the first of them in the loop's order
first_invalid(n) ==
    CHOOSE p \in invalid_positions(n) :
        \A q \in invalid_positions(n) :
            p[1] < q[1] \/ (p[1] = q[1] /\ p[2] <= q[2])

\* len(self.get_strategy_generator()): the handlers of A and B have one
\* generator, the handler of C any number of them, none included
generator_counts(n) == IF n = "C" THEN 0..MaxGens ELSE {1}

\* no handler is inside register_strategy: the call is synchronous
NoneRunning == \A m \in Nodes : pc[m] # "running"

\* the parameters and buffers the operator instance bound to a node owns
\* itself (recurse=False)
module_named_parameters(n) ==
    CASE n = "A" -> {"weight", "bias"}
      [] n = "B" -> {"weight"}
      [] OTHER   -> {}

module_named_buffers(n) == IF n = "A" THEN {"running_mean"} ELSE {}

\* no ModuleHandler(node, device_mesh, strategies_vector) call was made
NotConstructed ==
    [status |-> "none", owning_module |-> FALSE, target_resolves |-> FALSE,
     error |-> "None", module |-> "None",
     named_parameters |-> {}, named_buffers |-> {}, captured |-> FALSE]

\* the constructor ignores what the graph lacks and returns a handler
ModuleHandler_init_lenient(n, owning_module, target_resolves) ==
    [NotConstructed EXCEPT
        !.status = "constructed",
        !.owning_module = owning_module,
        !.target_resolves = target_resolves,
        !.module = IF owning_module /\ target_resolves THEN n ELSE "None",
        !.named_parameters = IF owning_module /\ target_resolves
                             THEN module_named_parameters(n) ELSE {},
        !.named_buffers = IF owning_module /\ target_resolves
                          THEN module_named_buffers(n) ELSE {},
        !.captured = TRUE]

\* ModuleHandler.__init__: the assert on graph.owning_module, get_submodule
\* on the node's target, then the capture of the two maps
ModuleHandler_init(n, owning_module, target_resolves) ==
    LET seen == [NotConstructed EXCEPT !.owning_module = owning_module,
                                       !.target_resolves = target_resolves]
    IN  IF ~owning_module
        THEN [seen EXCEPT !.status = "failed", !.error = "AssertionError"]
        ELSE IF ~target_resolves
        THEN [seen EXCEPT !.status = "failed", !.error = "AttributeError"]
        ELSE [seen EXCEPT !.status = "constructed",
                          !.module = n,
                          !.named_parameters = module_named_parameters(n),
                          !.named_buffers = module_named_buffers(n),
                          !.captured = TRUE]

\* the call begins by emptying the vector
Enter_clearing_vector(n, compute, count) ==
    /\ module_handler[n].status = "constructed"
    /\ pc' = [pc EXCEPT ![n] = "running"]
    /\ compute_resharding_cost' = [compute_resharding_cost EXCEPT ![n] = compute]
    /\ num_generators' = [num_generators EXCEPT ![n] = count]
    /\ gen_index' = [gen_index EXCEPT ![n] = 1]
    /\ generated' = [generated EXCEPT ![n] = <<>>]
    /\ raised' = [raised EXCEPT ![n] = NoError]
    /\ calls' = [calls EXCEPT ![n] = @ + 1]
    /\ strategies_vector' = [strategies_vector EXCEPT ![n] = <<>>]
    /\ UNCHANGED <<attached, snapshot, total_rule, module_handler>>

\* the call register_strategy(compute) begins: the generator list is read
Enter(n, compute, count) ==
    /\ module_handler[n].status = "constructed"
    /\ pc' = [pc EXCEPT ![n] = "running"]
    /\ compute_resharding_cost' = [compute_resharding_cost EXCEPT ![n] = compute]
    /\ num_generators' = [num_generators EXCEPT ![n] = count]
    /\ gen_index' = [gen_index EXCEPT ![n] = 1]
    /\ generated' = [generated EXCEPT ![n] = <<>>]
    /\ raised' = [raised EXCEPT ![n] = NoError]
    /\ calls' = [calls EXCEPT ![n] = @ + 1]
    /\ UNCHANGED <<strategies_vector, attached, snapshot, total_rule, module_handler>>

\* the planning pass calls the handler of a node it has not processed
Invoke(n) ==
    /\ pc[n] = "idle"
    /\ NoneRunning
    /\ \E compute \in BOOLEAN, count \in generator_counts(n) :
          Enter(n, compute, count)

\* one pass of the loop over the generators: generate, post-process,
\* compute the resharding costs, extend the vector
GenerateStep(n) ==
    /\ pc[n] = "running"
    /\ gen_index[n] <= num_generators[n]
    /\ \E strategies \in GenOutputs(n, gen_index[n]) :
          LET post == post_processed(n, strategies)
              out  == with_resharding_costs(n, compute_resharding_cost[n], post)
          IN  /\ generated' = [generated EXCEPT ![n] = Append(@, strategies)]
              /\ IF out.ok
                 THEN /\ strategies_vector' =
                             [strategies_vector EXCEPT
                                 ![handler_vector(n)] = extend(@, out.strategies)]
                      /\ gen_index' = [gen_index EXCEPT ![n] = @ + 1]
                      /\ UNCHANGED <<pc, raised>>
                 ELSE /\ pc' = [pc EXCEPT ![n] = "raised"]
                      /\ raised' = [raised EXCEPT ![n] = out.error]
                      /\ UNCHANGED <<strategies_vector, gen_index>>
    /\ UNCHANGED <<attached, compute_resharding_cost, num_generators, calls,
                   snapshot, total_rule, module_handler>>

\* the validation loop and the return
Validate(n) ==
    /\ pc[n] = "running"
    /\ gen_index[n] > num_generators[n]
    /\ IF invalid_positions(n) = {}
       THEN /\ pc' = [pc EXCEPT ![n] = "returned"]
            /\ snapshot' = [snapshot EXCEPT ![n] =
                               IF @.taken THEN @
                               ELSE [taken |-> TRUE,
                                     value |-> strategies_vector[handler_vector(n)]]]
            /\ UNCHANGED raised
       ELSE LET p  == first_invalid(n)
                nm == operand_names(n)[p[2]]
            IN  /\ pc' = [pc EXCEPT ![n] = "raised"]
                /\ raised' = [raised EXCEPT ![n] =
                      [NoError EXCEPT
                          !.kind   = InvalidLayoutError,
                          !.layout = strategies_vector[handler_vector(n)][p[1]]
                                         .sharding_specs[nm],
                          !.shape  = tensor_shape(nm)]]
                /\ UNCHANGED snapshot
    /\ UNCHANGED <<strategies_vector, attached, compute_resharding_cost,
                   num_generators, gen_index, generated, calls, total_rule, module_handler>>

\* the planning pass attaches the returned vector to the node
Publish(n) ==
    /\ pc[n] = "returned"
    /\ ~attached[n]
    /\ attached' = [attached EXCEPT ![n] = TRUE]
    /\ UNCHANGED <<strategies_vector, pc, compute_resharding_cost, num_generators,
                   gen_index, generated, raised, calls, snapshot, total_rule, module_handler>>

RECURSIVE RecallsIn(_)
RecallsIn(S) ==
    IF S = {} THEN 0
    ELSE LET m == CHOOSE x \in S : TRUE
         IN  (IF calls[m] > 1 THEN calls[m] - 1 ELSE 0) + RecallsIn(S \ {m})

\* the repeated calls made so far
Recalls == RecallsIn(Nodes)

\* register_strategy is called again on a handler that has returned
Recall(n) ==
    /\ pc[n] = "returned"
    /\ Recalls < MaxRecalls
    /\ NoneRunning
    /\ \E compute \in BOOLEAN, count \in generator_counts(n) :
          Enter(n, compute, count)

\* no handler has been called yet
InitHandlers ==
    /\ strategies_vector = [n \in Nodes |-> <<>>]
    /\ attached = [n \in Nodes |-> FALSE]
    /\ pc = [n \in Nodes |-> "idle"]
    /\ compute_resharding_cost = [n \in Nodes |-> FALSE]
    /\ num_generators = [n \in Nodes |-> 0]
    /\ gen_index = [n \in Nodes |-> 1]
    /\ generated = [n \in Nodes |-> <<>>]
    /\ raised = [n \in Nodes |-> NoError]
    /\ calls = [n \in Nodes |-> 0]
    /\ snapshot = [n \in Nodes |-> [taken |-> FALSE, value |-> <<>>]]

\* the handlers of all nodes were constructed on a graph that has its
\* owning module and resolves every target
AllConstructed == [n \in Nodes |-> ModuleHandler_init(n, TRUE, TRUE)]

Init ==
    /\ InitHandlers
    /\ total_rule \in CombinationRules
    /\ module_handler = AllConstructed

InitFaultyOracle ==
    /\ InitHandlers
    /\ total_rule = FaultyRule
    /\ module_handler = AllConstructed

\* no handler is constructed yet
InitModuleHandler ==
    /\ InitHandlers
    /\ total_rule = "sum"
    /\ module_handler = [n \in Nodes |-> NotConstructed]

\* ModuleHandler(node, device_mesh, strategies_vector) on a graph with or
\* without owning module, for a target that resolves or not
Construct(n) ==
    /\ module_handler[n].status = "none"
    /\ \E owning_module \in BOOLEAN, target_resolves \in BOOLEAN :
          module_handler' = [module_handler EXCEPT
              ![n] = ModuleHandler_init(n, owning_module, target_resolves)]
    /\ UNCHANGED <<strategies_vector, attached, pc, compute_resharding_cost,
                   num_generators, gen_index, generated, raised, calls,
                   snapshot, total_rule>>

Next ==
    \E n \in Nodes :
        \/ Invoke(n)
        \/ GenerateStep(n)
        \/ Validate(n)
        \/ Publish(n)

\* the planning pass: every handler is called once
Spec == Init /\ [][Next]_vars

NextRecall ==
    \/ Next
    \/ \E n \in Nodes : Recall(n)

\* a handler may be called again after it has returned
SpecRecall == Init /\ [][NextRecall]_vars

NextModuleHandler ==
    \/ Next
    \/ \E n \in Nodes : Construct(n)

\* the handlers are constructed, then called by the planning pass
SpecModuleHandler == InitModuleHandler /\ [][NextModuleHandler]_vars

\* the planning pass with an oracle that answers with negative costs
SpecFaultyOracle == InitFaultyOracle /\ [][Next]_vars

RECURSIVE Upstream(_)
\* the nodes a node depends on, directly or not
Upstream(n) ==
    SeqToSet(predecessor_node(n))
        \cup UNION {Upstream(p) : p \in SeqToSet(predecessor_node(n))}

\* no predecessor/successor path between the two nodes
Independent(n, m) == n # m /\ n \notin Upstream(m) /\ m \notin Upstream(n)

\* the handler of a node is called while only handlers of independent
\* nodes are inside register_strategy
InvokeParallel(n) ==
    /\ pc[n] = "idle"
    /\ \A m \in Nodes : pc[m] = "running" => Independent(n, m)
    /\ \E compute \in BOOLEAN, count \in generator_counts(n) :
          Enter(n, compute, count)

NextParallel ==
    \E n \in Nodes :
        \/ InvokeParallel(n)
        \/ GenerateStep(n)
        \/ Validate(n)
        \/ Publish(n)

\* independent branches of the graph are processed in parallel, their
\* steps interleaved
SpecParallel == Init /\ [][NextParallel]_vars

----------------------------------------------------------------------------
(* Vocabulary of the properties *)

Preds(n) == SeqToSet(predecessor_node(n))

IsPrefix(s, t) == Len(s) <= Len(t) /\ SubSeq(t, 1, Len(s)) = s

RECURSIVE ConcatAll(_)
ConcatAll(ss) == IF ss = <<>> THEN <<>> ELSE Head(ss) \o ConcatAll(Tail(ss))

\* what identifies a candidate: its name and its layouts
Identity(s) == [name |-> s.name, sharding_specs |-> s.sharding_specs]

Identities(ss) == [i \in 1..Len(ss) |-> Identity(ss[i])]

\* the post_process results of everything generated in the call so far:
\* by generator, then by position in its output, then by fan-out position
Candidates(n) ==
    ConcatAll([g \in 1..Len(generated[n]) |->
        ConcatAll([i \in 1..Len(generated[n][g]) |->
            post_process(n, generated[n][g][i]).items])])

\* every layout of the strategy fits the tensor of its operand
StrategyValid(n, s) ==
    \A nm \in SeqToSet(operand_names(n)) \cap TensorOperands :
        LayoutValid(s.sharding_specs[nm], tensor_shape(nm))

ValidOnes(n, ss) == SelectSeq(ss, LAMBDA s : StrategyValid(n, s))

\* the call on n is over and did not fail on a missing predecessor
Finished(n) ==
    \/ pc[n] = "returned"
    \/ pc[n] = "raised" /\ raised[n].kind = InvalidLayoutError

----------------------------------------------------------------------------
(* C1 *)

\* C1: once register_strategy(compute_resharding_cost = true) has returned
\* for node n, every strategy of n's vector has, for every predecessor p,
\* a cost list exactly as long as p's vector.
C1_ReshardingVectorAlignment ==
    \A n \in Nodes :
        (pc[n] = "returned" /\ compute_resharding_cost[n]) =>
            \A i \in 1..Len(strategies_vector[n]) : \A p \in Preds(n) :
                LET S == strategies_vector[n][i]
                IN  /\ NodeKey(p) \in DOMAIN S.resharding_costs
                    /\ Len(S.resharding_costs[NodeKey(p)]) = Len(strategies_vector[p])

\* C returned with costs towards two predecessors whose vectors differ in
\* length
C1_Witness ==
    /\ pc["C"] = "returned"
    /\ compute_resharding_cost["C"]
    /\ Len(strategies_vector["C"]) >= 2
    /\ Len(strategies_vector["A"]) = 1
    /\ Len(strategies_vector["B"]) = 2

----------------------------------------------------------------------------
(* C2 *)

\* C2: entry i of a strategy's cost list for predecessor p is the oracle's
\* result for (layout of p's i-th strategy for the edge operand, the
\* strategy's own layout for it), forward, backward and total each taken
\* over unchanged, in the order of p's vector.
C2_CostsAreTheOracles ==
    \A n \in Nodes : \A i \in 1..Len(strategies_vector[n]) : \A p \in Preds(n) :
        LET S == strategies_vector[n][i]
        IN  (S.has_costs /\ NodeKey(p) \in DOMAIN S.resharding_costs) =>
                \A j \in 1..Len(S.resharding_costs[NodeKey(p)]) :
                    /\ j <= Len(strategies_vector[p])
                    /\ LET cost == shape_consistency(
                                       strategies_vector[p][j].sharding_specs[p],
                                       S.sharding_specs[p])
                           item == S.resharding_costs[NodeKey(p)][j]
                       IN  /\ item.fwd = cost.forward
                           /\ item.bwd = cost.backward
                           /\ item.total = cost.total

\* a strategy of C holds two different costs towards B, with forward and
\* backward both charged
C2_Witness ==
    \E i \in 1..Len(strategies_vector["C"]) :
        LET S == strategies_vector["C"][i]
        IN  /\ S.has_costs
            /\ NodeKey("B") \in DOMAIN S.resharding_costs
            /\ Len(S.resharding_costs[NodeKey("B")]) = 2
            /\ S.resharding_costs[NodeKey("B")][1] # S.resharding_costs[NodeKey("B")][2]
            /\ S.resharding_costs[NodeKey("B")][1].fwd > 0
            /\ S.resharding_costs[NodeKey("B")][1].bwd > 0

----------------------------------------------------------------------------
(* C3 *)

\* the predecessors of n that carry no vector
Missing(n) == {k \in 1..Len(predecessor_node(n)) : ~attached[predecessor_node(n)[k]]}

FirstMissing(n) ==
    predecessor_node(n)[CHOOSE k \in Missing(n) : \A l \in Missing(n) : k <= l]

\* C3 as stated: no step of a handler whose node has a predecessor without
\* a vector returns normally or leaves strategies in the node's vector.
C3_AlwaysOrderingError ==
    [][\A n \in Nodes :
          (pc[n] = "running" /\ Missing(n) # {}) =>
              (pc'[n] # "returned" /\ strategies_vector'[n] = <<>>)]_vars

\* C3 as amended: with compute_resharding_cost = true, the pass over a
\* generator that yields at least one candidate while a predecessor carries
\* no vector ends the call with the assertion error naming the first such
\* predecessor, and the node's vector stays empty; no other step of a call
\* ends with that error.
C3_OrderingErrorWhenCostsAreComputed ==
    [][\A n \in Nodes :
          LET checked ==
                  /\ pc[n] = "running"
                  /\ compute_resharding_cost[n]
                  /\ Missing(n) # {}
                  /\ Len(generated'[n]) = Len(generated[n]) + 1
                  /\ post_processed(n, generated'[n][Len(generated'[n])]) # <<>>
              fails ==
                  /\ pc[n] = "running"
                  /\ pc'[n] = "raised"
                  /\ raised'[n].kind = OrderingError
          IN  /\ checked => ( /\ fails
                              /\ raised'[n].node = FirstMissing(n)
                              /\ strategies_vector'[n] = <<>> )
              /\ fails => checked]_vars

\* C's call ended with the error naming B, its second predecessor, in its
\* second generator, the first having produced nothing
C3_Witness ==
    /\ pc["C"] = "raised"
    /\ raised["C"].kind = OrderingError
    /\ raised["C"].node = "B"
    /\ attached["A"]
    /\ Len(generated["C"]) = 2
    /\ generated["C"][2] # <<>>
    /\ strategies_vector["C"] = <<>>

----------------------------------------------------------------------------
(* C4 *)

\* C4: whenever no call is in progress on a node, its interrupted calls
\* included, every strategy of its vector has only layouts that fit their
\* tensors (divisible, no mesh axis used twice).
C4_NoInvalidStrategyCommitted ==
    \A n \in Nodes :
        pc[n] # "running" =>
            \A i \in 1..Len(strategies_vector[n]) :
                StrategyValid(n, strategies_vector[n][i])

----------------------------------------------------------------------------
(* C5 *)

SomeInvalid(n) == \E i \in 1..Len(Candidates(n)) : ~StrategyValid(n, Candidates(n)[i])

SomeValid(n) == \E i \in 1..Len(Candidates(n)) : StrategyValid(n, Candidates(n)[i])

\* C5: when some but not all candidates of a node are invalid, the call
\* returns and the vector holds exactly the valid candidates, in the order
\* they were produced.
C5_InvalidCandidatesExcluded ==
    \A n \in Nodes :
        (Finished(n) /\ SomeInvalid(n) /\ SomeValid(n)) =>
            /\ pc[n] = "returned"
            /\ Identities(strategies_vector[n]) = Identities(ValidOnes(n, Candidates(n)))

----------------------------------------------------------------------------
(* C6 *)

\* C6: when every candidate of a node is invalid, the call returns without
\* an error and the vector is empty.
C6_AllInvalidReturnsEmpty ==
    \A n \in Nodes :
        (Finished(n) /\ Candidates(n) # <<>> /\ ~SomeValid(n)) =>
            /\ pc[n] = "returned"
            /\ strategies_vector[n] = <<>>

----------------------------------------------------------------------------
(* C7 *)

\* C7: once register_strategy has returned for a node, its vector stays
\* equal to the snapshot taken at that return, whatever is called later.
C7_FreezeOnPublish ==
    \A n \in Nodes :
        snapshot[n].taken => strategies_vector[n] = snapshot[n].value

----------------------------------------------------------------------------
(* C8 *)

\* C8: the strategies a call has appended to the vector are the
\* post_process results of everything generated, flattened by generator
\* position, then position in the generator's output, then fan-out
\* position: none dropped, duplicated or moved.
C8_AppendedInProductionOrder ==
    \A n \in Nodes :
        (pc[n] = "running" \/ Finished(n)) =>
            Identities(strategies_vector[n]) = Identities(Candidates(n))

\* C returned after two generators, one of them yielding two strategies,
\* each fanned out in two
C8_Witness ==
    /\ pc["C"] = "returned"
    /\ Len(generated["C"]) = 2
    /\ Len(generated["C"][1]) = 2
    /\ generated["C"][2] # <<>>
    /\ Len(strategies_vector["C"]) = 6

----------------------------------------------------------------------------
(* C9 *)

\* C9: during and after a call with compute_resharding_cost = true, every
\* strategy already in the node's vector has its resharding costs set,
\* with one entry per predecessor of the node.
C9_CostsBeforeCommit ==
    \A n \in Nodes :
        (pc[n] # "idle" /\ compute_resharding_cost[n]) =>
            \A i \in 1..Len(strategies_vector[n]) :
                LET S == strategies_vector[n][i]
                IN  /\ S.has_costs
                    /\ DOMAIN S.resharding_costs = {NodeKey(p) : p \in Preds(n)}

\* C is between two generators with costed strategies already committed
C9_Witness ==
    /\ pc["C"] = "running"
    /\ compute_resharding_cost["C"]
    /\ gen_index["C"] = 2
    /\ num_generators["C"] = 2
    /\ strategies_vector["C"] # <<>>
    /\ Len(strategies_vector["B"]) > 0

----------------------------------------------------------------------------
(* C10 *)

\* C10: every vector starts empty, and every step leaves the old contents
\* of every vector as a prefix of the new ones.
C10_AppendOnly ==
    /\ \A n \in Nodes : strategies_vector[n] = <<>>
    /\ [][\A n \in Nodes :
             IsPrefix(strategies_vector[n], strategies_vector'[n])]_vars

\* two generators of C have each extended its vector
C10_Witness ==
    /\ Len(generated["C"]) = 2
    /\ generated["C"][1] # <<>>
    /\ generated["C"][2] # <<>>
    /\ Len(strategies_vector["C"]) >= 4

----------------------------------------------------------------------------
(* C11 *)

\* what a call on n alone yields from its own inputs and the vectors of its
\* predecessors: the candidates in production order, each with the oracle's
\* costs towards every strategy of every predecessor
SequentialResult(n) ==
    [i \in 1..Len(Candidates(n)) |->
        LET cand == Candidates(n)[i]
        IN  IF compute_resharding_cost[n]
            THEN [cand EXCEPT
                    !.has_costs = TRUE,
                    !.resharding_costs =
                        [key \in {NodeKey(p) : p \in Preds(n)} |->
                            [j \in 1..Len(strategies_vector[key.name]) |->
                                LET c == shape_consistency(
                                        strategies_vector[key.name][j]
                                            .sharding_specs[key.name],
                                        cand.sharding_specs[key.name])
                                IN  [fwd |-> c.forward, bwd |-> c.backward,
                                     total |-> c.total]]]]
            ELSE cand]

\* C11: with independent nodes processed in either order or interleaved,
\* the vector of every finished node is the result of a call on that node
\* alone; a step changes the vector of one node only, the one whose handler
\* takes it, and costs are computed only from vectors of predecessors that
\* have returned and are attached.
C11_InterleavingChangesNothing ==
    /\ [](\A n \in Nodes : Finished(n) => strategies_vector[n] = SequentialResult(n))
    /\ [][\A n \in Nodes :
             strategies_vector'[n] # strategies_vector[n] =>
                 /\ pc[n] = "running"
                 /\ generated'[n] # generated[n]
                 /\ \A m \in Nodes \ {n} : strategies_vector'[m] = strategies_vector[m]
                 /\ compute_resharding_cost[n] =>
                        \A p \in Preds(n) : attached[p] /\ pc[p] = "returned"]_vars

\* A and B are both inside register_strategy, each with strategies
\* committed
C11_Witness ==
    /\ pc["A"] = "running"
    /\ pc["B"] = "running"
    /\ strategies_vector["A"] # <<>>
    /\ strategies_vector["B"] # <<>>

----------------------------------------------------------------------------
(* C12 *)

\* the cost items stored in the strategies of the vector of n
StoredItems(n) ==
    UNION {UNION {SeqToSet(strategies_vector[n][i].resharding_costs[key]) :
                    key \in DOMAIN strategies_vector[n][i].resharding_costs} :
             i \in 1..Len(strategies_vector[n])}

\* C12: no cost item with a negative forward, backward or total cost is
\* ever stored in a strategy, whatever the oracle answers.
C12_NoNegativeCostStored ==
    \A n \in Nodes :
        \A item \in StoredItems(n) :
            item.fwd >= 0 /\ item.bwd >= 0 /\ item.total >= 0

----------------------------------------------------------------------------
(* C13 *)

\* C13: a call of register_strategy whose generator list is empty leaves
\* the vector of the node as it was, from its first step to its return, and
\* raises nothing.
C13_EmptyGeneratorListChangesNothing ==
    [][\A n \in Nodes :
          /\ (pc[n] # "running" /\ pc'[n] = "running" /\ num_generators'[n] = 0)
                => strategies_vector'[n] = strategies_vector[n]
          /\ (pc[n] = "running" /\ num_generators[n] = 0)
                => /\ strategies_vector'[n] = strategies_vector[n]
                   /\ pc'[n] \in {"running", "returned"}
                   /\ raised'[n] = NoError]_vars

\* a second call on C, with no generators, has returned and the vector
\* holds the strategies of the first call
C13_Witness ==
    /\ pc["C"] = "returned"
    /\ calls["C"] = 2
    /\ num_generators["C"] = 0
    /\ strategies_vector["C"] # <<>>

----------------------------------------------------------------------------
(* C14 *)

\* the errors of a graph or operator binding the handler cannot use
ConfigurationErrors == {"AssertionError", "AttributeError"}

\* C14: a ModuleHandler constructed for a node whose graph has no owning
\* module, or whose target does not resolve, fails with a configuration
\* error; no module, parameter map or buffer map is captured, the handler
\* is never called, and the construction leaves every vector as it was.
C14_FailedConstructionYieldsNoHandler ==
    /\ [](\A n \in Nodes :
            LET h == module_handler[n]
            IN  (h.status # "none" /\ (~h.owning_module \/ ~h.target_resolves))
                    => /\ h.status = "failed"
                       /\ h.error \in ConfigurationErrors
                       /\ ~h.captured
                       /\ h.module = "None"
                       /\ h.named_parameters = {}
                       /\ h.named_buffers = {}
                       /\ pc[n] = "idle"
                       /\ calls[n] = 0
                       /\ strategies_vector[n] = <<>>)
    /\ [][module_handler' # module_handler
             => strategies_vector' = strategies_vector]_vars

\* the construction for A failed on a graph without owning module, the one
\* for B on a target that does not resolve, while C's handler has run
C14_Witness ==
    /\ module_handler["A"].error = "AssertionError"
    /\ module_handler["B"].error = "AttributeError"
    /\ module_handler["C"].status = "constructed"
    /\ pc["C"] = "returned"
    /\ strategies_vector["C"] # <<>>

----------------------------------------------------------------------------
(* C15 *)

\* C15: every InvalidLayoutError a call ends with carries the id of the
\* node, the name of the operand and the layout that failed for it.
C15_ErrorNamesNodeOperandLayout ==
    \A n \in Nodes :
        raised[n].kind = InvalidLayoutError =>
            /\ raised[n].node = n
            /\ raised[n].operand \in SeqToSet(operand_names(n))
            /\ raised[n].operand \in TensorOperands
            /\ ~LayoutValid(raised[n].layout, tensor_shape(raised[n].operand))

----------------------------------------------------------------------------
(* C16 *)

\* C16: in a call with compute_resharding_cost = false the vector holds the
\* candidates exactly as generate and post_process produced them, their
\* resharding_costs untouched, whatever the state of the predecessors; the
\* call never ends with the error of a missing predecessor vector, and it
\* returns when every layout is valid.
C16_NoCostsWhenNotAsked ==
    \A n \in Nodes :
        (pc[n] # "idle" /\ ~compute_resharding_cost[n]) =>
            /\ strategies_vector[n] = Candidates(n)
            /\ \A i \in 1..Len(strategies_vector[n]) :
                  /\ ~strategies_vector[n][i].has_costs
                  /\ strategies_vector[n][i].resharding_costs = EmptyDict
            /\ raised[n].kind # OrderingError
            /\ pc[n] = "raised" => raised[n].kind = InvalidLayoutError
            /\ (pc[n] = "raised") =>
                  \E i \in 1..Len(Candidates(n)) : ~StrategyValid(n, Candidates(n)[i])

\* C has returned with strategies, costs not asked for, while neither A nor
\* B has been processed
C16_Witness ==
    /\ pc["C"] = "returned"
    /\ ~compute_resharding_cost["C"]
    /\ pc["A"] = "idle"
    /\ pc["B"] = "idle"
    /\ ~attached["A"]
    /\ ~attached["B"]
    /\ strategies_vector["C"] # <<>>

----------------------------------------------------------------------------
(* C17 *)

\* a strategy that carries costs of some earlier computation, one item for
\* every node of the graph
WithStaleCosts(strategy) ==
    [strategy EXCEPT
        !.has_costs = TRUE,
        !.resharding_costs =
            [key \in {NodeKey(m) : m \in Nodes} |->
                <<[fwd |-> 9, bwd |-> 9, total |-> 9]>>]]

\* the strategies of n that update_resharding_cost may be applied to
Updatable(n) ==
    LET known == SeqToSet(strategies_vector[n]) \cup SeqToSet(Candidates(n))
    IN  known \cup {WithStaleCosts(s) : s \in known}

\* C17: update_resharding_cost replaces the resharding_costs of a strategy
\* as a whole: the keys of the result are the predecessors of the node, each
\* with one item per strategy of that predecessor, nothing of the old value
\* is kept, and a second application with the predecessors' vectors
\* unchanged gives what the first gave.
C17_UpdateReplacesCosts ==
    \A n \in Nodes :
        (\A p \in Preds(n) : attached[p]) =>
            \A s \in Updatable(n) :
                LET once  == update_resharding_cost(n, s)
                    twice == update_resharding_cost(n, once.strategy)
                IN  /\ once.ok
                    /\ DOMAIN once.strategy.resharding_costs
                           = {NodeKey(p) : p \in Preds(n)}
                    /\ \A p \in Preds(n) :
                          Len(once.strategy.resharding_costs[NodeKey(p)])
                              = Len(strategies_vector[p])
                    /\ once = update_resharding_cost(n, [s EXCEPT
                                  !.has_costs = FALSE,
                                  !.resharding_costs = EmptyDict])
                    /\ twice = once

\* C holds strategies with costs towards the strategies of A and of B
C17_Witness ==
    /\ attached["A"] /\ attached["B"]
    /\ strategies_vector["A"] # <<>>
    /\ strategies_vector["B"] # <<>>
    /\ pc["C"] = "returned"
    /\ compute_resharding_cost["C"]
    /\ Len(strategies_vector["C"]) >= 2

----------------------------------------------------------------------------
(* C18 *)

\* the layouts of the strategy that fail for the data of their operand,
\* tensor or not
InvalidLayouts(n, s) ==
    {nm \in SeqToSet(operand_names(n)) :
        ~LayoutValid(s.sharding_specs[nm], tensor_shape(nm))}

\* C18: a call whose candidates have invalid layouts only for operands
\* whose data is not a tensor returns normally with every candidate
\* committed; a call ends in the validation only on an invalid layout of a
\* tensor operand.
C18_OnlyTensorOperandsValidated ==
    \A n \in Nodes :
        LET all == Candidates(n)
            tensor_invalid ==
                {i \in 1..Len(all) :
                    \E nm \in InvalidLayouts(n, all[i]) :
                        data_type(nm) = "torch.Tensor"}
        IN  /\ (Finished(n) /\ tensor_invalid = {})
                 => /\ pc[n] = "returned"
                    /\ Identities(strategies_vector[n]) = Identities(all)
            /\ (pc[n] = "raised" /\ raised[n].kind = InvalidLayoutError)
                 => tensor_invalid # {}

\* B has returned with a strategy whose layout for the size argument is
\* invalid
C18_Witness ==
    /\ pc["B"] = "returned"
    /\ \E i \in 1..Len(strategies_vector["B"]) :
          /\ "size" \in InvalidLayouts("B", strategies_vector["B"][i])
          /\ "B" \notin InvalidLayouts("B", strategies_vector["B"][i])

====
